---- MODULE Spec2Model ----
(***************************************************************************)
(* Model of infercnvpy.tl.copykat (src/infercnvpy/tl/_copykat.py): the     *)
(* adapter that hands an AnnData expression matrix to the R package        *)
(* copykat through rpy2 and stores or returns the converted result.        *)
(*                                                                         *)
(* Python values are modelled as follows.                                  *)
(*   Optional[T]      a sequence of length 0 (None) or 1 (the value)       *)
(*   numpy ndarray    a sequence of rows, each a sequence of numbers       *)
(*   scipy sparse     a shape and the set of stored <<row, col, value>>    *)
(*   R matrix         dim plus the column-major data vector                *)
(*   data frame       column names, row labels and one vector per column   *)
(*   dict / R env     a function whose domain is the set of bound names    *)
(*   identifiers      sequences of one-character strings                   *)
(***************************************************************************)
EXTENDS Integers, Sequences, FiniteSets, TLC

VARIABLES env, adata, args, pc, locals, globalenv, r_call, outcome

vars == <<env, adata, args, pc, locals, globalenv, r_call, outcome>>

(* ---------------------------- bounds ----------------------------------- *)

NCells == 2

NGenes == 1

MaxBins == 2

MaxJobs == 2

NCores == 3

(* ------------------------- generic helpers ----------------------------- *)

\* dict[key] = value, R `assign`: bind key, keeping every other binding.
Put(f, k, v) == [n \in (DOMAIN f) \cup {k} |-> IF n = k THEN v ELSE f[n]]

RECURSIVE SumTo(_, _)
SumTo(f, n) == IF n = 0 THEN 0 ELSE f[n] + SumTo(f, n - 1)

(* --------------------------- identifiers ------------------------------- *)

\* adata.obs.index: cell barcodes, some with a hyphen, some with a period.
CellId(i) == IF i % 2 = 1 THEN <<"c", "-", ToString(i)>>
                          ELSE <<"c", ".", ToString(i)>>

\* adata.var.index: gene symbols.
GeneId(j) == <<"G", ToString(j)>>

ChromCol == <<"c", "h", "r", "o", "m">>

ChromposCol == <<"c", "h", "r", "o", "m", "p", "o", "s">>

AbsposCol == <<"a", "b", "s", "p", "o", "s">>

(* ------------------------ expression matrices -------------------------- *)

Matrices == [1..NCells -> [1..NGenes -> {0, 1}]]

DenseX(m) == [fmt |-> "dense", shape |-> <<NCells, NGenes>>, rows |-> m, coo |-> {}]

SparseX(m) ==
    [fmt |-> "sparse", shape |-> <<NCells, NGenes>>, rows |-> <<>>,
     coo |-> {<<r, c, m[r][c]>> : r \in 1..NCells, c \in 1..NGenes} \
             {<<r, c, 0>> : r \in 1..NCells, c \in 1..NGenes}]

\* Value stored at (row r, column c) of an expression matrix, by format.
EntryOf(x, r, c) ==
    IF x.fmt = "dense" THEN x.rows[r][c]
    ELSE IF \E t \in x.coo : t[1] = r /\ t[2] = c
         THEN (CHOOSE t \in x.coo : t[1] = r /\ t[2] = c)[3]
         ELSE 0

issparse(x) == x.fmt = "sparse"

\* ndarray.T / spmatrix.T
Transpose(x) ==
    [fmt |-> x.fmt, shape |-> <<x.shape[2], x.shape[1]>>,
     rows |-> IF x.fmt = "dense"
              THEN [i \in 1..x.shape[2] |-> [j \in 1..x.shape[1] |-> x.rows[j][i]]]
              ELSE <<>>,
     coo |-> {<<t[2], t[1], t[3]>> : t \in x.coo}]

\* spmatrix.toarray(): zeros everywhere, stored entries filled in.
toarray(x) ==
    [fmt |-> "dense", shape |-> x.shape,
     rows |-> [i \in 1..x.shape[1] |-> [j \in 1..x.shape[2] |->
                 IF \E t \in x.coo : t[1] = i /\ t[2] = j
                 THEN (CHOOSE t \in x.coo : t[1] = i /\ t[2] = j)[3]
                 ELSE 0]],
     coo |-> {}]

\* Lines 98-101 densifying a sparse matrix without transposing it.
PrepareExprMatrixNoT(x) == IF issparse(x) THEN toarray(x) ELSE Transpose(x)

\* Lines 98-101: the genes x cells dense array handed to the converter.
PrepareExprMatrix(x) == IF issparse(x) THEN toarray(Transpose(x)) ELSE Transpose(x)

\* numpy2ri: an R matrix with dim = shape and the entries in column-major order.
py2rpy_array(a) ==
    [dim |-> a.shape,
     data |-> [k \in 1..(a.shape[1] * a.shape[2]) |->
                 a.rows[((k - 1) % a.shape[1]) + 1][((k - 1) \div a.shape[1]) + 1]]]

\* R indexing m[i, j] of a matrix.
RIndex(m, i, j) == m.data[(j - 1) * m.dim[1] + i]

(* --------------------------- configuration ----------------------------- *)

DefaultConfig ==
    [gene_ids |-> "S", segmentation_cut |-> "0.1", distance |-> "euclidean",
     s_name |-> "copykat_result", min_genes_chr |-> 5]

OtherConfig ==
    [gene_ids |-> "E", segmentation_cut |-> "0.5", distance |-> "pearson",
     s_name |-> "run2", min_genes_chr |-> 3]

Configs == {DefaultConfig, OtherConfig}

\* Lines 73-76 with the platform test as an elif of the None test.
EffectiveJobsElif(n_jobs, os_name, cores) ==
    IF n_jobs = <<>> THEN cores
    ELSE IF os_name # "posix" THEN 1 ELSE n_jobs[1]

\* Lines 73-76.
EffectiveJobs(n_jobs, os_name, cores) ==
    LET n1 == IF n_jobs = <<>> THEN cores ELSE n_jobs[1]
    IN  IF os_name # "posix" THEN 1 ELSE n1

\* Lines 103-110 binding a name only when it is not bound yet.
TransferBindingsOnce(g, a, n, c) ==
    LET put(f, k, v) == IF k \in DOMAIN f THEN f ELSE Put(f, k, v)
        g1 == put(g, "gene_names", a.var_index)
        g2 == put(g1, "cell_IDs", a.obs_index)
        g3 == put(g2, "n_jobs", n)
        g4 == put(g3, "gene_ids", c.gene_ids)
        g5 == put(g4, "segmentation_cut", c.segmentation_cut)
        g6 == put(g5, "distance", c.distance)
        g7 == put(g6, "s_name", c.s_name)
    IN  put(g7, "min_gene_chr", c.min_genes_chr)

\* Lines 103-110: the names bound in the R global environment and their values.
TransferBindings(g, a, n, c) ==
    LET g1 == Put(g, "gene_names", a.var_index)
        g2 == Put(g1, "cell_IDs", a.obs_index)
        g3 == Put(g2, "n_jobs", n)
        g4 == Put(g3, "gene_ids", c.gene_ids)
        g5 == Put(g4, "segmentation_cut", c.segmentation_cut)
        g6 == Put(g5, "distance", c.distance)
        g7 == Put(g6, "s_name", c.s_name)
    IN  Put(g7, "min_gene_chr", c.min_genes_chr)

(* ------------------------- the R side ---------------------------------- *)

RScriptNames ==
    {"expr_r", "gene_names", "cell_IDs", "gene_ids", "min_gene_chr",
     "segmentation_cut", "s_name", "distance", "n_jobs"}

\* Lines 115-119: the arguments the external routine copykat() receives, read
\* from the global environment at the time the script runs.
CopykatCall(g) ==
    [rawmat |-> [dim |-> g["expr_r"].dim, data |-> g["expr_r"].data,
                 rownames |-> g["gene_names"], colnames |-> g["cell_IDs"]],
     id_type |-> g["gene_ids"], ngene_chr |-> g["min_gene_chr"], win_size |-> 25,
     KS_cut |-> g["segmentation_cut"], sam_name |-> g["s_name"],
     distance |-> g["distance"], norm_cell_names |-> "",
     n_cores |-> g["n_jobs"], output_seg |-> FALSE]

ChromLabels == {"1", "2"}

\* Chromosome label of every bin, in table order.
Layouts == UNION {[1..n -> ChromLabels] : n \in 1..MaxBins}

RECURSIVE SortedSeq(_)
SortedSeq(S) ==
    IF S = {} THEN <<>>
    ELSE LET m == CHOOSE x \in S : \A y \in S : x <= y
         IN  <<m>> \o SortedSeq(S \ {m})

\* The input columns (cells) the external routine keeps, in input order.
Kepts(n) == {SortedSeq(S) : S \in (SUBSET (1..n)) \ {{}}}

ExtChoices == Layouts \X Kepts(NCells)

\* R make.names, applied to data frame column names: a hyphen becomes a period.
make_names(name) == [i \in DOMAIN name |-> IF name[i] = "-" THEN "." ELSE name[i]]

\* Line 121: str_replace_all(x, "\\.", "-").
str_replace_all(name) == [i \in DOMAIN name |-> IF name[i] = "." THEN "-" ELSE name[i]]

AbsPos(b) == 100 + 400 * (b - 1)

\* Copy-number value the external routine reports for bin b and input column j.
CNAValue(rawmat, b, j) ==
    10 * b + SumTo([gi \in 1..rawmat.dim[1] |-> RIndex(rawmat, gi, j)], rawmat.dim[1])

\* copyKAT_run$CNAmat: three metadata columns, then one column per kept cell.
CNAmat(call, layout, kept) ==
    LET nb == Len(layout)
    IN  [names |-> <<ChromCol, ChromposCol, AbsposCol>> \o
                   [i \in 1..Len(kept) |-> make_names(call.rawmat.colnames[kept[i]])],
         row_names |-> [b \in 1..nb |-> ToString(b)],
         cols |-> <<layout, [b \in 1..nb |-> b], [b \in 1..nb |-> AbsPos(b)]>> \o
                  [i \in 1..Len(kept) |->
                     [b \in 1..nb |-> CNAValue(call.rawmat, b, kept[i])]]]

\* Lines 120-121: copyKAT_result as left in the global environment.
RenameColumns(t) == [t EXCEPT !.names = [i \in DOMAIN t.names |-> str_replace_all(t.names[i])]]

(* ------------------------ result post-processing ----------------------- *)

\* pandas2ri: column vectors keep their names, R row names become the index.
rpy2py_dataframe(t) == [columns |-> t.names, index |-> t.row_names, cols |-> t.cols]

ColumnPos(df, name) == CHOOSE j \in DOMAIN df.columns : df.columns[j] = name

\* df.loc[:, ["chrom"]]: the index and the chrom column.
LocChrom(df) ==
    [b \in DOMAIN df.index |->
       [Index |-> df.index[b], chrom |-> df.cols[ColumnPos(df, ChromCol)][b]]]

\* drop_duplicates(keep="last").
drop_duplicates_last(rows) ==
    LET keep == SortedSeq({i \in DOMAIN rows :
                             \A j \in (i + 1)..Len(rows) : rows[j].chrom # rows[i].chrom})
    IN  [k \in DOMAIN keep |-> rows[keep[k]]]

\* DataFrame.drop_duplicates(): keep the first row of every distinct value.
drop_duplicates(rows) ==
    LET keep == SortedSeq({i \in DOMAIN rows :
                             \A j \in 1..(i - 1) : rows[j].chrom # rows[i].chrom})
    IN  [k \in DOMAIN keep |-> rows[keep[k]]]

\* DataFrame.itertuples(): (Index, chrom) per row.
itertuples(rows) == [k \in DOMAIN rows |-> <<rows[k].Index, rows[k].chrom>>]

\* int(str) for the decimal row labels.
py_int(s) == CHOOSE n \in 0..(MaxBins + 1) : ToString(n) = s

RECURSIVE DictCompByPos(_, _)
\* The comprehension keyed by the first tuple member instead of the second.
DictCompByPos(tuples, n) ==
    IF n = 0 THEN <<>>
    ELSE Put(DictCompByPos(tuples, n - 1), "chr" \o tuples[n][1], py_int(tuples[n][1]))

RECURSIVE DictComp(_, _)
\* Lines 132-136: {f"chr{chrom}": int(pos) for pos, chrom in tuples}.
DictComp(tuples, n) ==
    IF n = 0 THEN <<>>
    ELSE Put(DictComp(tuples, n - 1), "chr" \o tuples[n][2], py_int(tuples[n][1]))

\* Lines 130-137.
BuildChromPos(df) ==
    LET tuples == itertuples(drop_duplicates(LocChrom(df)))
    IN  [chr_pos |-> DictComp(tuples, Len(tuples))]

\* DataFrame.drop(names, axis=1)
drop(df, names) ==
    LET keep == SortedSeq({j \in DOMAIN df.columns : df.columns[j] \notin names})
    IN  [columns |-> [k \in DOMAIN keep |-> df.columns[keep[k]]],
         index |-> df.index,
         cols |-> [k \in DOMAIN keep |-> df.cols[keep[k]]]]

\* DataFrame.values: a rows x columns array.
values(df) ==
    [b \in DOMAIN df.index |-> [j \in DOMAIN df.columns |-> df.cols[j][b]]]

\* ndarray.T of a non-empty two-dimensional array.
T(arr) == [j \in DOMAIN arr[1] |-> [b \in DOMAIN arr |-> arr[b][j]]]

\* Lines 139-143.
DropAndTranspose(df) == T(values(drop(df, {ChromCol, ChromposCol, AbsposCol})))

(* --------------------------- analysis object --------------------------- *)

OldChrPos == [chr_pos |-> Put(<<>>, "chr9", 9)]

OldMatrix == [i \in 1..NCells |-> <<7>>]

InitialUns == Put(Put(<<>>, "cnv", OldChrPos), "other", OldChrPos)

InitialObsm == Put(Put(<<>>, "X_cnv", OldMatrix), "X_pca", OldMatrix)

CountsLayer == [i \in 1..NCells |-> [j \in 1..NGenes |-> 1]]

AnnData(x) ==
    [X |-> x, layers |-> [counts |-> DenseX(CountsLayer)],
     obs_index |-> [i \in 1..NCells |-> CellId(i)],
     var_index |-> [j \in 1..NGenes |-> GeneId(j)],
     uns |-> InitialUns, obsm |-> InitialObsm]

AnalysisObjects == {AnnData(DenseX(m)) : m \in Matrices} \cup
                   {AnnData(SparseX(m)) : m \in Matrices}

\* The obsm key without its prefix.
ObsmKeyBare(key_added) == key_added

\* Line 147: "X_%s" % key_added.
ObsmKey(key_added) == "X_" \o key_added

\* Line 87 alone: only the first package is imported.
PackagesImportedFirstOnly(e) == e.copykat

\* Lines 86-88: importr("copykat") and importr("stringr") both succeed.
PackagesImported(e) == e.copykat /\ e.stringr

\* AnnData's obsm accepts only arrays with one row per observation.
ObsmAccepts(a, value) == Len(value) = Len(a.obs_index)

(* ------------------------------ state ---------------------------------- *)

\* Host and installation: which imports succeed, os.name, cpu_count().
Envs ==
    [rpy2 : BOOLEAN, copykat : BOOLEAN, stringr : BOOLEAN,
     os_name : {"posix", "nt"}, cpu_count : {NCores}]

\* Lines 10-21: the keyword defaults of copykat().
DefaultArgs ==
    [inplace |-> TRUE, key_added |-> "cnv", layer |-> <<>>, n_jobs |-> <<>>,
     config |-> DefaultConfig]

CallArgs ==
    [inplace : BOOLEAN, key_added : {"cnv", "alt"}, layer : {<<>>, <<"counts">>},
     n_jobs : {<<>>} \cup {<<n>> : n \in 1..MaxJobs}, config : Configs]

NoOutcome == [status |-> "none", value |-> <<>>, exc |-> "", names |-> {}]

Returned(v) == [status |-> "returned", value |-> v, exc |-> "", names |-> {}]

Raised(e, n) == [status |-> "raised", value |-> <<>>, exc |-> e, names |-> n]

InitOver(envs, objects) ==
    /\ env \in envs
    /\ adata \in objects
    /\ args = DefaultArgs
    /\ pc = "idle"
    /\ locals = <<>>
    /\ globalenv = <<>>
    /\ r_call = <<>>
    /\ outcome = NoOutcome

Init == InitOver(Envs, AnalysisObjects)

(* ----------------------------- operations ------------------------------ *)

Raise(e, n) ==
    /\ pc' = "done"
    /\ outcome' = Raised(e, n)

\* Entry of copykat() and lines 73-76.
Call(argset) ==
    /\ pc = "idle"
    /\ \E a \in argset :
         /\ args' = a
         /\ locals' = Put(<<>>, "n_jobs",
                          EffectiveJobs(a.n_jobs, env.os_name, env.cpu_count))
    /\ pc' = "import_rpy2"
    /\ r_call' = <<>>
    /\ outcome' = NoOutcome
    /\ UNCHANGED <<env, adata, globalenv>>

\* Lines 78-84.
ImportRpy2 ==
    /\ pc = "import_rpy2"
    /\ IF env.rpy2
       THEN pc' = "importr" /\ UNCHANGED outcome
       ELSE Raise("ImportError", {"rpy2"})
    /\ UNCHANGED <<env, adata, args, locals, globalenv, r_call>>

\* Lines 86-93.
ImportPackages ==
    /\ pc = "importr"
    /\ IF PackagesImported(env)
       THEN pc' = "prepare" /\ UNCHANGED outcome
       ELSE Raise("ImportError", {"copykat", "stringr"})
    /\ UNCHANGED <<env, adata, args, locals, globalenv, r_call>>

\* Lines 96-102.  With a layer name, line 97 evaluates the unbound name
\* tmp_adata and raises NameError before anything is read.
PrepareExpr ==
    /\ pc = "prepare"
    /\ IF args.layer = <<>>
       THEN LET expr == PrepareExprMatrix(adata.X)
            IN  /\ locals' = Put(locals, "expr", expr)
                /\ globalenv' = Put(globalenv, "expr_r", py2rpy_array(expr))
                /\ pc' = "transfer"
                /\ UNCHANGED outcome
       ELSE /\ Raise("NameError", {"tmp_adata"})
            /\ UNCHANGED <<locals, globalenv>>
    /\ UNCHANGED <<env, adata, args, r_call>>

\* Lines 103-110.
TransferArgs ==
    /\ pc = "transfer"
    /\ globalenv' = TransferBindings(globalenv, adata, locals["n_jobs"], args.config)
    /\ pc' = "run"
    /\ UNCHANGED <<env, adata, args, locals, r_call, outcome>>

\* Lines 113-123, the external routine returning a table.  A name the script
\* reads that is not bound makes R stop with "object not found".
RunCopykat(choices) ==
    /\ pc = "run"
    /\ IF RScriptNames \subseteq DOMAIN globalenv
       THEN \E ch \in choices :
              LET call == CopykatCall(globalenv)
                  t == CNAmat(call, ch[1], ch[2])
              IN  /\ r_call' = <<[given |-> call, result |-> <<t>>]>>
                  /\ globalenv' = Put(Put(globalenv, "copyKAT_run", [CNAmat |-> t]),
                                      "copyKAT_result", RenameColumns(t))
                  /\ pc' = "read"
                  /\ UNCHANGED outcome
       ELSE /\ Raise("RRuntimeError", {})
            /\ UNCHANGED <<globalenv, r_call>>
    /\ UNCHANGED <<env, adata, args, locals>>

\* Lines 113-123, the external routine failing: ro.r raises, nothing is assigned.
CopykatFails ==
    /\ pc = "run"
    /\ RScriptNames \subseteq DOMAIN globalenv
    /\ r_call' = <<[given |-> CopykatCall(globalenv), result |-> <<>>]>>
    /\ Raise("RRuntimeError", {})
    /\ UNCHANGED <<env, adata, args, locals, globalenv>>

\* Lines 125-128.
ReadResult ==
    /\ pc = "read"
    /\ locals' = Put(locals, "copyKAT_result",
                     rpy2py_dataframe(globalenv["copyKAT_result"]))
    /\ pc' = "post"
    /\ UNCHANGED <<env, adata, args, globalenv, r_call, outcome>>

\* Lines 130-143.
PostProcess ==
    /\ pc = "post"
    /\ locals' = Put(Put(locals, "chrom_pos", BuildChromPos(locals["copyKAT_result"])),
                     "new_cpkat_trans", DropAndTranspose(locals["copyKAT_result"]))
    /\ pc' = "store"
    /\ UNCHANGED <<env, adata, args, globalenv, r_call, outcome>>

\* Lines 145-146.
WriteUns ==
    /\ pc = "store"
    /\ args.inplace
    /\ adata' = [adata EXCEPT !.uns = Put(adata.uns, args.key_added, locals["chrom_pos"])]
    /\ pc' = "write_obsm"
    /\ UNCHANGED <<env, args, locals, globalenv, r_call, outcome>>

\* Line 147: obsm rejects an array whose first dimension is not n_obs.
WriteObsm ==
    /\ pc = "write_obsm"
    /\ IF ObsmAccepts(adata, locals["new_cpkat_trans"])
       THEN /\ adata' = [adata EXCEPT !.obsm = Put(adata.obsm, ObsmKey(args.key_added),
                                                   locals["new_cpkat_trans"])]
            /\ pc' = "done"
            /\ outcome' = Returned(<<>>)
       ELSE /\ Raise("ValueError", {"obsm"})
            /\ UNCHANGED adata
    /\ UNCHANGED <<env, args, locals, globalenv, r_call>>

\* Lines 148-149.
ReturnResult ==
    /\ pc = "store"
    /\ ~args.inplace
    /\ pc' = "done"
    /\ outcome' = Returned(<<locals["new_cpkat_trans"]>>)
    /\ UNCHANGED <<env, adata, args, locals, globalenv, r_call>>

Next ==
    \/ Call(CallArgs)
    \/ ImportRpy2
    \/ ImportPackages
    \/ PrepareExpr
    \/ TransferArgs
    \/ RunCopykat(ExtChoices)
    \/ CopykatFails
    \/ ReadResult
    \/ PostProcess
    \/ WriteUns
    \/ WriteObsm
    \/ ReturnResult

Spec == Init /\ [][Next]_vars

(* ------------------- repeated invocations in one process --------------- *)

\* The caller's code between two invocations: the call frame is gone, the R
\* global environment persists, and the next call is given some analysis object.
Finish(objects) ==
    /\ pc = "done"
    /\ pc' = "idle"
    /\ adata' \in objects
    /\ args' = DefaultArgs
    /\ locals' = <<>>
    /\ r_call' = <<>>
    /\ outcome' = NoOutcome
    /\ UNCHANGED <<env, globalenv>>

\* The sequences explored: a POSIX host, dense matrices of every content, both
\* configurations, n_jobs unset or 1, and one-bin tables with any kept cells.
SeqEnvs == {e \in Envs : e.os_name = "posix"}

SeqObjects == {AnnData(DenseX(m)) : m \in Matrices}

SeqArgs == {a \in CallArgs : a.key_added = "cnv" /\ a.n_jobs \in {<<>>, <<1>>}}

SeqChoices == {ch \in ExtChoices : Len(ch[1]) = 1}

InitSeq == InitOver(SeqEnvs, SeqObjects)

NextSeq ==
    \/ Call(SeqArgs)
    \/ ImportRpy2
    \/ ImportPackages
    \/ PrepareExpr
    \/ TransferArgs
    \/ RunCopykat(SeqChoices)
    \/ CopykatFails
    \/ ReadResult
    \/ PostProcess
    \/ WriteUns
    \/ WriteObsm
    \/ ReturnResult
    \/ Finish(SeqObjects)

SpecSeq == InitSeq /\ [][NextSeq]_vars

(* ------------------------------ claims --------------------------------- *)

Succeeded == pc = "done" /\ outcome.status = "returned"

Failed == pc = "done" /\ outcome.status = "raised"

SlotsUntouched == adata.uns = InitialUns /\ adata.obsm = InitialObsm

\* The result table of the current invocation, as read back into Python.
ResultTable == locals["copyKAT_result"]

ChromOf(df, b) == df.cols[1][b]

AbsposOf(df, b) == df.cols[3][b]

FirstRowOf(df, c) ==
    CHOOSE b \in DOMAIN df.index :
        ChromOf(df, b) = c /\ \A b2 \in 1..(b - 1) : ChromOf(df, b2) # c

ChromsOf(df) == {ChromOf(df, b) : b \in DOMAIN df.index}

\* C1: a successful call with inplace false leaves uns and obsm as they were
\* and returns the output matrix; with inplace true it returns None, binds
\* uns[key_added] to {"chr_pos": map} and obsm["X_" + key_added] to the output
\* matrix, and leaves every other entry of both slots as it was.
C1_InplaceContract ==
    Succeeded =>
        IF args.inplace
        THEN /\ outcome.value = <<>>
             /\ DOMAIN adata.uns = DOMAIN InitialUns \cup {args.key_added}
             /\ DOMAIN adata.obsm = DOMAIN InitialObsm \cup {"X_" \o args.key_added}
             /\ adata.uns[args.key_added] = locals["chrom_pos"]
             /\ DOMAIN adata.uns[args.key_added] = {"chr_pos"}
             /\ adata.obsm["X_" \o args.key_added] = locals["new_cpkat_trans"]
             /\ \A k \in DOMAIN InitialUns \ {args.key_added} :
                    adata.uns[k] = InitialUns[k]
             /\ \A k \in DOMAIN InitialObsm \ {"X_" \o args.key_added} :
                    adata.obsm[k] = InitialObsm[k]
        ELSE /\ SlotsUntouched
             /\ outcome.value = <<locals["new_cpkat_trans"]>>

C1_Witness ==
    /\ Succeeded
    /\ args.inplace
    /\ args.key_added = "cnv"
    /\ adata.uns["cnv"] # InitialUns["cnv"]
    /\ adata.obsm["X_cnv"] # InitialObsm["X_cnv"]

\* C2: a call that ends in an error has written neither uns[key_added] nor
\* obsm["X_" + key_added].
C2_NoPartialWrite == Failed => SlotsUntouched

\* C3: when rpy2 or one of the R packages copykat and stringr is missing, the
\* call ends in an ImportError whose message names the missing component, and
\* up to then no matrix has been read, nothing is bound in the R global
\* environment, the external routine has not run and the slots are untouched.
C3_DependencyFailsFirst ==
    (pc # "idle" /\ ~(env.rpy2 /\ env.copykat /\ env.stringr)) =>
        /\ pc \in {"import_rpy2", "importr", "done"}
        /\ "expr" \notin DOMAIN locals
        /\ globalenv = <<>>
        /\ r_call = <<>>
        /\ SlotsUntouched
        /\ pc = "done" =>
             /\ outcome.status = "raised"
             /\ outcome.exc = "ImportError"
             /\ ~env.rpy2 => "rpy2" \in outcome.names
             /\ (env.rpy2 /\ ~env.copykat) => "copykat" \in outcome.names
             /\ (env.rpy2 /\ ~env.stringr) => "stringr" \in outcome.names

C3_Witness ==
    /\ Failed
    /\ env.rpy2 /\ env.copykat /\ ~env.stringr
    /\ outcome.exc = "ImportError"

\* C4 as stated: the map sends every distinct chromosome of the result table
\* to the abspos value of the first row, in table order, with that chromosome.
C4_MapsToAbspos ==
    "chrom_pos" \in DOMAIN locals =>
        \A c \in ChromsOf(ResultTable) :
            \E k \in {c, "chr" \o c} \cap DOMAIN locals["chrom_pos"].chr_pos :
                locals["chrom_pos"].chr_pos[k] =
                    AbsposOf(ResultTable, FirstRowOf(ResultTable, c))

\* C4 amended: the map sends "chr" + label, for every distinct chromosome
\* label of the result table, to the integer value of the row label of the
\* first row, in table order, with that label; the output matrix has one row
\* per cell column of the table and one column per table row.
C4_MapsToRowLabel ==
    "chrom_pos" \in DOMAIN locals =>
        /\ \A c \in ChromsOf(ResultTable) :
             /\ ("chr" \o c) \in DOMAIN locals["chrom_pos"].chr_pos
             /\ ToString(locals["chrom_pos"].chr_pos["chr" \o c]) =
                    ResultTable.index[FirstRowOf(ResultTable, c)]
        /\ Len(locals["new_cpkat_trans"]) = Len(ResultTable.columns) - 3
        /\ \A i \in DOMAIN locals["new_cpkat_trans"] :
             Len(locals["new_cpkat_trans"][i]) = Len(ResultTable.index)

C4_Witness ==
    /\ "chrom_pos" \in DOMAIN locals
    /\ Len(ResultTable.index) = 2
    /\ ChromOf(ResultTable, 1) = "1" /\ ChromOf(ResultTable, 2) = "2"
    /\ AbsposOf(ResultTable, 1) = 100 /\ AbsposOf(ResultTable, 2) = 500
    /\ locals["chrom_pos"].chr_pos["chr1"] = 1
    /\ locals["chrom_pos"].chr_pos["chr2"] = 2

\* C5 as stated: the keys of the map are exactly the distinct chromosome
\* labels of the chrom column, and every value is an integer.
C5_KeysAreLabels ==
    "chrom_pos" \in DOMAIN locals =>
        /\ DOMAIN locals["chrom_pos"].chr_pos = ChromsOf(ResultTable)
        /\ \A k \in DOMAIN locals["chrom_pos"].chr_pos :
             locals["chrom_pos"].chr_pos[k] \in Int

\* C5 amended: the keys of the map are exactly the distinct chromosome labels
\* of the chrom column each prefixed with "chr", one key per distinct label,
\* and every value is an integer.
C5_KeysArePrefixedLabels ==
    "chrom_pos" \in DOMAIN locals =>
        /\ DOMAIN locals["chrom_pos"].chr_pos =
               {"chr" \o c : c \in ChromsOf(ResultTable)}
        /\ Cardinality(DOMAIN locals["chrom_pos"].chr_pos) =
               Cardinality(ChromsOf(ResultTable))
        /\ \A k \in DOMAIN locals["chrom_pos"].chr_pos :
             locals["chrom_pos"].chr_pos[k] \in Int

C5_Witness ==
    /\ "chrom_pos" \in DOMAIN locals
    /\ Len(ResultTable.index) = 2
    /\ ChromOf(ResultTable, 1) = "2" /\ ChromOf(ResultTable, 2) = "2"
    /\ DOMAIN locals["chrom_pos"].chr_pos = {"chr2"}

\* C6: with a layer name that exists in the analysis object the call gets
\* past the layer lookup and transfers that layer's values.
C6_LayerIsUsed ==
    (args.layer # <<>> /\ pc \notin {"idle", "import_rpy2", "importr", "prepare"}
        /\ env.rpy2 /\ env.copykat /\ env.stringr) =>
        /\ outcome.exc # "NameError"
        /\ "expr" \in DOMAIN locals
        /\ \A gi \in 1..NGenes, ci \in 1..NCells :
             locals["expr"].rows[gi][ci] = EntryOf(adata.layers[args.layer[1]], ci, gi)

\* C7: n.cores of the external call is 1 on a non-POSIX host, and on a POSIX
\* host the caller's n_jobs when given, else the number of logical cores.
C7_WorkerCount ==
    r_call # <<>> =>
        r_call[1].given.n_cores =
            (IF env.os_name # "posix" THEN 1
             ELSE IF args.n_jobs = <<>> THEN env.cpu_count ELSE args.n_jobs[1])

C7_Witness ==
    /\ r_call # <<>>
    /\ env.os_name = "nt"
    /\ args.n_jobs = <<>>
    /\ r_call[1].given.n_cores = 1

\* The column of the external routine's table that belongs to a cell id.
ColumnsFor(t, id) == {j \in DOMAIN t.names : t.names[j] = make_names(id)}

\* C8: the output matrix has one row per cell of the analysis object and one
\* column per row of the result table, and row i holds the values of the
\* result column that belongs to cell_ids[i].
C8_CellAxisPreserved ==
    "new_cpkat_trans" \in DOMAIN locals =>
        /\ Len(locals["new_cpkat_trans"]) = Len(adata.obs_index)
        /\ \A i \in DOMAIN adata.obs_index :
             /\ Len(locals["new_cpkat_trans"][i]) = Len(ResultTable.index)
             /\ \E j \in ColumnsFor(r_call[1].result[1], adata.obs_index[i]) :
                  locals["new_cpkat_trans"][i] = r_call[1].result[1].cols[j]

\* C9: the genes x cells matrix bound to expr_r holds at [g, c] the value the
\* expression matrix stores at [c, g], whether that matrix is sparse or dense.
C9_FormatIndependent ==
    "expr_r" \in DOMAIN globalenv =>
        /\ globalenv["expr_r"].dim = <<NGenes, NCells>>
        /\ Len(globalenv["expr_r"].data) = NGenes * NCells
        /\ \A gi \in 1..NGenes, ci \in 1..NCells :
             RIndex(globalenv["expr_r"], gi, ci) = EntryOf(adata.X, ci, gi)

C9_Witness ==
    /\ "expr_r" \in DOMAIN globalenv
    /\ adata.X.fmt = "sparse"
    /\ Cardinality(adata.X.coo) = 1
    /\ \E t \in adata.X.coo : RIndex(globalenv["expr_r"], t[2], t[1]) = t[3]

\* C10: over any sequence of invocations, the external routine is invoked
\* with the matrix, identifiers and scalars of the current invocation, and the
\* table read back is the one the current invocation's external call produced.
C10_CurrentValuesOnly ==
    /\ r_call # <<>> =>
         /\ r_call[1].given.rawmat.dim = <<NGenes, NCells>>
         /\ \A gi \in 1..NGenes, ci \in 1..NCells :
              RIndex(r_call[1].given.rawmat, gi, ci) = EntryOf(adata.X, ci, gi)
         /\ r_call[1].given.rawmat.rownames = adata.var_index
         /\ r_call[1].given.rawmat.colnames = adata.obs_index
         /\ r_call[1].given.id_type = args.config.gene_ids
         /\ r_call[1].given.ngene_chr = args.config.min_genes_chr
         /\ r_call[1].given.KS_cut = args.config.segmentation_cut
         /\ r_call[1].given.sam_name = args.config.s_name
         /\ r_call[1].given.distance = args.config.distance
         /\ r_call[1].given.n_cores = locals["n_jobs"]
    /\ "copyKAT_result" \in DOMAIN locals =>
         /\ r_call # <<>>
         /\ r_call[1].result # <<>>
         /\ ResultTable.cols = r_call[1].result[1].cols
         /\ ResultTable.index = r_call[1].result[1].row_names
         /\ Len(ResultTable.columns) = Len(r_call[1].result[1].names)

\* A later invocation whose external call failed: the exchange area still
\* holds an earlier invocation's table, and it has not been read.
C10_Witness ==
    /\ Failed
    /\ r_call # <<>>
    /\ r_call[1].result = <<>>
    /\ "copyKAT_result" \in DOMAIN globalenv
    /\ "copyKAT_result" \notin DOMAIN locals
    /\ globalenv["n_jobs"] = locals["n_jobs"]

====
